---- MODULE Spec2Model ----
(***************************************************************************)
(* Model of manage_dataset.py: the archive extraction / republish /        *)
(* validation pipeline over an S3 bucket, followed by structure            *)
(* verification and statistics.                                            *)
(*                                                                         *)
(* Strings (keys, file names) are sequences of one-character strings, so   *)
(* that prefix matching, endswith() and lower() are computed as the code   *)
(* computes them.  Object bodies are sequences of tokens; the size of an   *)
(* object is the length of its body.                                       *)
(***************************************************************************)
EXTENDS Integers, Sequences, FiniteSets, TLC

VARIABLES
    store,        \* the bucket: key -> body
    archive,      \* decoded zip directory: sequence of [name, body]
    stage,        \* position of __main__
    run,          \* number of the current invocation of the script
    idx,          \* index of the next entry of z.namelist()
    outcomes,     \* validation log, one record per validated entry
    aborted,      \* which exception the outer handler of unzip caught
    report,       \* expected dir -> "present" | "missing"
    vidx,         \* index of the next expected dir to verify
    stats,        \* what list_dataset_stats logged
    store0,       \* history: the bucket before the first run
    storeAfter1,  \* history: the bucket when the first run ended
    complete1,    \* history: the first run put every entry
    lblBody,      \* label validator: payload under validation
    lblPc,        \* label validator: position
    lblLines,     \* label validator: label_content
    lblPos,       \* label validator: index of the next line
    lblResult     \* label validator: "good" | "problem"

vars == <<store, archive, stage, run, idx, outcomes, aborted, report, vidx,
          stats, store0, storeAfter1, complete1,
          lblBody, lblPc, lblLines, lblPos, lblResult>>

mainVars == <<store, archive, stage, run, idx, outcomes, aborted, report,
              vidx, stats, store0, storeAfter1, complete1>>
lblVars == <<lblBody, lblPc, lblLines, lblPos, lblResult>>

----------------------------------------------------------------------------
(* Bounds *)

MaxEntries == 3      \* entries per archive
MaxLabelLines == 3   \* lines per label payload in the validator spec
S3PageSize == 4      \* keys per list_objects_v2 response (1000 in S3)

----------------------------------------------------------------------------
(* Characters and strings *)

Ascii ==
    <<".", "/", "0", "1", "2", "3", "4", "5", "6", "7", "8", "9",
      "A", "B", "C", "D", "E", "F", "G", "H", "I", "J", "K", "L", "M",
      "N", "O", "P", "Q", "R", "S", "T", "U", "V", "W", "X", "Y", "Z",
      "_",
      "a", "b", "c", "d", "e", "f", "g", "h", "i", "j", "k", "l", "m",
      "n", "o", "p", "q", "r", "s", "t", "u", "v", "w", "x", "y", "z">>

Ord == [c \in {Ascii[i] : i \in 1..Len(Ascii)} |->
            CHOOSE i \in 1..Len(Ascii) : Ascii[i] = c]

UpperA == Ord["A"]
LowerA == Ord["a"]

\* str.lower() on one character
LowerChar(c) ==
    IF Ord[c] >= UpperA /\ Ord[c] < UpperA + 26
    THEN Ascii[LowerA + (Ord[c] - UpperA)]
    ELSE c

\* str.lower()
lower(s) == [i \in 1..Len(s) |-> LowerChar(s[i])]

\* str.startswith(p)
startswith(s, p) ==
    /\ Len(p) <= Len(s)
    /\ SubSeq(s, 1, Len(p)) = p

\* str.endswith(x)
endswith(s, x) ==
    /\ Len(x) <= Len(s)
    /\ SubSeq(s, Len(s) - Len(x) + 1, Len(s)) = x

\* byte-wise order of two keys, the order in which S3 lists them
LexLess(a, b) ==
    \E i \in 1..(Len(a) + 1) :
        /\ i <= Len(b)
        /\ \A j \in 1..(i - 1) : a[j] = b[j]
        /\ \/ i = Len(a) + 1
           \/ /\ i <= Len(a)
              /\ Ord[a[i]] < Ord[b[i]]

Slash == <<"/">>

prefix == <<"D", "a", "r", "t", "s", ".", "v", "2", "i", ".",
            "y", "o", "l", "o", "v", "1", "1">>

zip_key == <<"D", "a", "r", "t", "s", ".", "v", "2", "i", ".",
             "y", "o", "l", "o", "v", "1", "1", ".", "z", "i", "p">>

expected_dirs ==
    << <<"t", "r", "a", "i", "n", "/", "i", "m", "a", "g", "e", "s">>,
       <<"t", "r", "a", "i", "n", "/", "l", "a", "b", "e", "l", "s">>,
       <<"v", "a", "l", "i", "d", "/", "i", "m", "a", "g", "e", "s">>,
       <<"v", "a", "l", "i", "d", "/", "l", "a", "b", "e", "l", "s">>,
       <<"t", "e", "s", "t", "/", "i", "m", "a", "g", "e", "s">>,
       <<"t", "e", "s", "t", "/", "l", "a", "b", "e", "l", "s">> >>

ExpectedDirSet == {expected_dirs[i] : i \in 1..Len(expected_dirs)}

ImageSuffixes == { <<".", "j", "p", "g">>,
                   <<".", "j", "p", "e", "g">>,
                   <<".", "p", "n", "g">> }

LabelSuffix == <<".", "t", "x", "t">>

----------------------------------------------------------------------------
(* The object store *)

\* put_object: overwrite-on-put
put_object(st, key, body) ==
    [k \in (DOMAIN st) \cup {key} |-> IF k = key THEN body ELSE st[k]]

Matching(st, pfx) == {k \in DOMAIN st : startswith(k, pfx)}

RECURSIVE FirstKeys(_, _)
\* the first n keys of S in listing order
FirstKeys(S, n) ==
    IF n = 0 \/ S = {} THEN <<>>
    ELSE LET k == CHOOSE x \in S : \A y \in S \ {x} : LexLess(x, y)
         IN <<k>> \o FirstKeys(S \ {k}, n - 1)

Min(a, b) == IF a <= b THEN a ELSE b

\* list_objects_v2(Prefix=pfx, MaxKeys=maxKeys): response['Contents'] as a
\* sequence of keys; one response never holds more than S3PageSize keys.
\* An empty sequence stands for a response without 'Contents'.
list_objects_v2(st, pfx, maxKeys) ==
    FirstKeys(Matching(st, pfx), Min(maxKeys, S3PageSize))

Size(st, k) == Len(st[k])

----------------------------------------------------------------------------
(* Entry classification and validation *)

\* filename.lower().endswith(('.jpg', '.jpeg', '.png'))
IsImageName(filename) ==
    \E x \in ImageSuffixes : endswith(lower(filename), x)

\* filename.lower().endswith('.txt')
IsLabelName(filename) == endswith(lower(filename), LabelSuffix)

\* Image.open(BytesIO(file_content)); img.verify(): the body starts with a
\* known signature and carries its end marker
ImageVerifies(body) ==
    /\ Len(body) >= 2
    /\ \/ body[1] = "JFIF" /\ body[Len(body)] = "EOI"
       \/ body[1] = "PNG" /\ body[Len(body)] = "IEND"

Whitespace == {" ", "\t", "\n"}

\* file_content.decode('utf-8') raises on a byte that is no UTF-8
DecodeFails(body) == \E i \in 1..Len(body) : body[i] = "\\xff"

\* str.strip()
strip(s) ==
    LET W == {i \in 1..Len(s) : s[i] \notin Whitespace}
    IN IF W = {} THEN <<>>
       ELSE LET a == CHOOSE i \in W : \A j \in W : i <= j
                b == CHOOSE i \in W : \A j \in W : j <= i
            IN SubSeq(s, a, b)

RECURSIVE splitlines(_)
\* str.splitlines(): a final line break opens no further line
splitlines(s) ==
    IF s = <<>> THEN <<>>
    ELSE LET B == {i \in 1..Len(s) : s[i] = "\n"}
         IN IF B = {} THEN <<s>>
            ELSE LET i == CHOOSE x \in B : \A y \in B : x <= y
                 IN <<SubSeq(s, 1, i - 1)>>
                        \o splitlines(SubSeq(s, i + 1, Len(s)))

IsWord(t) == t \notin Whitespace

\* line.strip().split(): the words of the line
split(line) == SelectSeq(strip(line), IsWord)

\* float(v): the value in tenths, NaN, or a ValueError
float(v) ==
    CASE v = "0"    -> [err |-> FALSE, nan |-> FALSE, tenths |-> 0]
      [] v = "1"    -> [err |-> FALSE, nan |-> FALSE, tenths |-> 10]
      [] v = "0.5"  -> [err |-> FALSE, nan |-> FALSE, tenths |-> 5]
      [] v = "0.2"  -> [err |-> FALSE, nan |-> FALSE, tenths |-> 2]
      [] v = "0.3"  -> [err |-> FALSE, nan |-> FALSE, tenths |-> 3]
      [] v = "0.4"  -> [err |-> FALSE, nan |-> FALSE, tenths |-> 4]
      [] v = "1.5"  -> [err |-> FALSE, nan |-> FALSE, tenths |-> 15]
      [] v = "-0.1" -> [err |-> FALSE, nan |-> FALSE, tenths |-> -1]
      [] v = "-1"   -> [err |-> FALSE, nan |-> FALSE, tenths |-> -10]
      [] v = "nan"  -> [err |-> FALSE, nan |-> TRUE, tenths |-> 0]
      [] OTHER      -> [err |-> TRUE, nan |-> FALSE, tenths |-> 0]

\* float(v) >= 0 evaluates to True (no exception, not NaN, not negative)
FloatGeqZero(v) ==
    /\ ~float(v).err
    /\ ~float(v).nan
    /\ float(v).tenths >= 0

\* as LineRaises, with all(...) taken over values instead of values[1:]
LineRaisesAllFields(values) ==
    \/ Len(values) # 5
    \/ \E i \in 1..Len(values) : ~FloatGeqZero(values[i])

\* len(values) != 5 or not all(float(v) >= 0 for v in values[1:])
\* raises ValueError (from the test or from float itself)
LineRaises(values) ==
    \/ Len(values) # 5
    \/ \E i \in 2..Len(values) : ~FloatGeqZero(values[i])

\* file_content.decode('utf-8').strip().splitlines()
label_content(body) == splitlines(strip(body))

\* the label check of one entry, as the loop of the code decides it
LabelGood(body) ==
    /\ ~DecodeFails(body)
    /\ \A i \in 1..Len(label_content(body)) :
           ~LineRaises(split(label_content(body)[i]))

----------------------------------------------------------------------------
(* Inputs: bodies, archive entries, keys already in the bucket *)

GoodJpeg == <<"JFIF", "d", "d", "EOI">>
TruncatedPng == <<"PNG", "d">>
GoodLine == <<"0", " ", "0.5", " ", "0.5", " ", "0.2", " ", "0.2">>
NegativeLine == <<"1", " ", "-0.1", " ", "0.2", " ", "0.3", " ", "0.4">>
GoodZip == <<"PK", "d", "d", "d", "d", "EOCD">>
CorruptZip == <<"PK", "d">>

\* zipfile.ZipFile(buffer) finds the end-of-central-directory record
ZipOpens(body) == Len(body) >= 1 /\ body[Len(body)] = "EOCD"

EntryPool ==
    { [name |-> <<"t", "r", "a", "i", "n", "/", "i", "m", "a", "g", "e", "s",
                  "/", "a", ".", "j", "p", "g">>,
       body |-> GoodJpeg],
      [name |-> <<"t", "r", "a", "i", "n", "/", "l", "a", "b", "e", "l", "s",
                  "/", "a", ".", "t", "x", "t">>,
       body |-> GoodLine],
      [name |-> <<"v", "a", "l", "i", "d", "/", "i", "m", "a", "g", "e", "s",
                  "/", "b", ".", "p", "n", "g">>,
       body |-> TruncatedPng],
      [name |-> <<"t", "e", "s", "t", "/", "i", "m", "a", "g", "e", "s",
                  "/", "C", ".", "J", "P", "G">>,
       body |-> GoodJpeg],
      [name |-> <<"t", "r", "a", "i", "n", "/", "l", "a", "b", "e", "l", "s",
                  "/", "n", ".", "t", "x", "t">>,
       body |-> NegativeLine] }

\* zip directories: up to MaxEntries entries with distinct names
Archives ==
    {a \in UNION {[1..n -> EntryPool] : n \in 0..MaxEntries} :
        \A i, j \in 1..Len(a) : i # j => a[i].name # a[j].name}

\* objects the bucket may hold before the first run, besides the archive
ExtraObjects ==
    {
      [key |-> <<"o", "t", "h", "e", "r", "/", "x", ".", "p", "n", "g">>,
       body |-> TruncatedPng],
      [key |-> prefix \o <<"/", "e", "x", "t", "r", "a", "/", "z", ".", "j",
                           "p", "e", "g">>,
       body |-> GoodJpeg] }

BucketOf(objs) ==
    [k \in {o.key : o \in objs} |->
        (CHOOSE o \in objs : o.key = k).body]

EmptyOutcomes == <<>>
EmptyReport == [d \in {} |-> "missing"]
NoStats == [ran |-> FALSE, found |-> FALSE, total_files |-> 0,
            total_size |-> 0, image_count |-> 0, label_count |-> 0]

LabelOff ==
    /\ lblBody = <<>>
    /\ lblPc = "off"
    /\ lblLines = <<>>
    /\ lblPos = 0
    /\ lblResult = "none"

Init ==
    /\ \E extras \in SUBSET ExtraObjects :
       \E zip \in {"absent", "corrupt", "good"} :
          store = BucketOf(extras \cup
                    (CASE zip = "absent" -> {}
                       [] zip = "corrupt" ->
                              {[key |-> zip_key, body |-> CorruptZip]}
                       [] zip = "good" ->
                              {[key |-> zip_key, body |-> GoodZip]}))
    /\ archive \in Archives
    /\ (zip_key \notin DOMAIN store \/ ~ZipOpens(store[zip_key]))
           => archive = <<>>
    /\ stage = "Idle"
    /\ run = 1
    /\ idx = 0
    /\ outcomes = EmptyOutcomes
    /\ aborted = "none"
    /\ report = EmptyReport
    /\ vidx = 0
    /\ stats = NoStats
    /\ store0 = store
    /\ storeAfter1 = store
    /\ complete1 = FALSE
    /\ LabelOff

----------------------------------------------------------------------------
(* __main__ of manage_dataset.py *)

\* the script starts and calls check_aws_connection()
StartRun ==
    /\ stage = "Idle"
    /\ stage' = "Preflighting"
    /\ UNCHANGED <<store, archive, run, idx, outcomes, aborted, report, vidx,
                   stats, store0, storeAfter1, complete1>>
    /\ UNCHANGED lblVars

\* check_aws_connection() returns True: the listing call raised nothing,
\* whether or not the response has 'Contents'
check_aws_connection_true ==
    /\ stage = "Preflighting"
    /\ stage' = "Opening"
    /\ UNCHANGED <<store, archive, run, idx, outcomes, aborted, report, vidx,
                   stats, store0, storeAfter1, complete1>>
    /\ UNCHANGED lblVars

\* check_aws_connection() returns False: the client or the listing call
\* raised; __main__ calls nothing else
check_aws_connection_false ==
    /\ stage = "Preflighting"
    /\ stage' = "Failed"
    /\ UNCHANGED <<store, archive, run, idx, outcomes, aborted, report, vidx,
                   stats, store0, storeAfter1, complete1>>
    /\ UNCHANGED lblVars

\* get_object raises (no such key) or ZipFile raises (bad zip file)
OpenRaises ==
    \/ zip_key \notin DOMAIN store
    \/ ~ZipOpens(store[zip_key])

\* unzip_s3_dataset(): get_object and ZipFile(buffer).  An exception is
\* caught by the outer handler, the function returns and __main__ goes on
\* to verify_dataset_structure()
unzip_open ==
    /\ stage = "Opening"
    /\ IF OpenRaises
       THEN /\ aborted' = "open"
            /\ stage' = "Verifying"
            /\ vidx' = 1
            /\ idx' = idx
       ELSE /\ aborted' = aborted
            /\ stage' = "Processing"
            /\ idx' = 1
            /\ vidx' = vidx
    /\ UNCHANGED <<store, archive, run, outcomes, report, stats, store0,
                   storeAfter1, complete1>>
    /\ UNCHANGED lblVars

\* target_key = f"Darts.v2i.yolov11/{filename}", a different root per run
target_key_per_run(filename) ==
    IF run = 1 THEN prefix \o Slash \o filename
    ELSE prefix \o <<"_", "2">> \o Slash \o filename

\* target_key = f"Darts.v2i.yolov11/{filename}"
target_key(filename) == prefix \o Slash \o filename

\* the two checks of one entry, each logging good or broken
Validate(filename, body) ==
    [name |-> filename,
     image |-> IF IsImageName(filename)
               THEN (IF ImageVerifies(body) THEN "good" ELSE "broken")
               ELSE "none",
     label |-> IF IsLabelName(filename)
               THEN (IF LabelGood(body) THEN "good" ELSE "problem")
               ELSE "none"]

Invalid(o) == o.image = "broken" \/ o.label = "problem"

\* one iteration with the checks run first and the put skipped when a
\* check fails
unzip_entry_checked_first ==
    /\ stage = "Processing"
    /\ idx <= Len(archive)
    /\ LET e == archive[idx]
           o == Validate(e.name, e.body)
       IN /\ store' = IF Invalid(o) THEN store
                      ELSE put_object(store, target_key(e.name), e.body)
          /\ outcomes' = Append(outcomes, o)
    /\ idx' = idx + 1
    /\ UNCHANGED <<archive, stage, run, aborted, report, vidx, stats, store0,
                   storeAfter1, complete1>>
    /\ UNCHANGED lblVars

\* one iteration of the loop over z.namelist() in which put_object
\* succeeds: read, put, then the image check and the label check
unzip_entry ==
    /\ stage = "Processing"
    /\ idx <= Len(archive)
    /\ LET e == archive[idx]
       IN /\ store' = put_object(store, target_key(e.name), e.body)
          /\ outcomes' = Append(outcomes, Validate(e.name, e.body))
    /\ idx' = idx + 1
    /\ UNCHANGED <<archive, stage, run, aborted, report, vidx, stats, store0,
                   storeAfter1, complete1>>
    /\ UNCHANGED lblVars

\* one iteration in which put_object raises: the exception leaves the loop,
\* the outer handler logs it and unzip_s3_dataset() returns
unzip_put_raises ==
    /\ stage = "Processing"
    /\ idx <= Len(archive)
    /\ aborted' = "put"
    /\ stage' = "Verifying"
    /\ vidx' = 1
    /\ UNCHANGED <<store, archive, run, idx, outcomes, report, stats, store0,
                   storeAfter1, complete1>>
    /\ UNCHANGED lblVars

\* the loop is exhausted: "All done", unzip_s3_dataset() returns
unzip_done ==
    /\ stage = "Processing"
    /\ idx > Len(archive)
    /\ stage' = "Verifying"
    /\ vidx' = 1
    /\ UNCHANGED <<store, archive, run, idx, outcomes, aborted, report, stats,
                   store0, storeAfter1, complete1>>
    /\ UNCHANGED lblVars

\* full_path with the dir_path left out
full_path_root(dir_path) == prefix \o Slash

\* full_path = f"{prefix}/{dir_path}/"
full_path(dir_path) == prefix \o Slash \o dir_path \o Slash

\* verify_dataset_structure(): one iteration over expected_dirs
verify_dir ==
    /\ stage = "Verifying"
    /\ vidx <= Len(expected_dirs)
    /\ LET d == expected_dirs[vidx]
           response == list_objects_v2(store, full_path(d), 1)
       IN report' = [x \in (DOMAIN report) \cup {d} |->
                        IF x = d
                        THEN (IF response # <<>> THEN "present"
                              ELSE "missing")
                        ELSE report[x]]
    /\ vidx' = vidx + 1
    /\ stage' = IF vidx = Len(expected_dirs) THEN "Reporting" ELSE stage
    /\ UNCHANGED <<store, archive, run, idx, outcomes, aborted, stats, store0,
                   storeAfter1, complete1>>
    /\ UNCHANGED lblVars

RECURSIVE SumSizes(_, _)
\* sum(obj['Size'] for obj in response['Contents'])
SumSizes(st, keys) ==
    IF keys = <<>> THEN 0
    ELSE Size(st, Head(keys)) + SumSizes(st, Tail(keys))

\* sum(1 for obj in contents if obj['Key'].endswith(suffixes))
CountEndswith(keys, suffixes) ==
    Cardinality({i \in 1..Len(keys) :
                    \E x \in suffixes : endswith(keys[i], x)})

\* list_dataset_stats(): one listing of Prefix=prefix without MaxKeys
list_dataset_stats ==
    /\ stage = "Reporting"
    /\ LET contents == list_objects_v2(store, prefix, S3PageSize)
       IN stats' =
            IF contents # <<>>
            THEN [ran |-> TRUE, found |-> TRUE,
                  total_files |-> Len(contents),
                  total_size |-> SumSizes(store, contents),
                  image_count |-> CountEndswith(contents, ImageSuffixes),
                  label_count |-> CountEndswith(contents, {LabelSuffix})]
            ELSE [NoStats EXCEPT !.ran = TRUE]
    /\ stage' = "Done"
    /\ UNCHANGED <<store, archive, run, idx, outcomes, aborted, report, vidx,
                   store0, storeAfter1, complete1>>
    /\ UNCHANGED lblVars

\* the script is invoked a second time on the same bucket
NextRun ==
    /\ stage \in {"Done", "Failed"}
    /\ run = 1
    /\ run' = 2
    /\ storeAfter1' = store
    /\ complete1' = (stage = "Done" /\ aborted = "none")
    /\ stage' = "Idle"
    /\ idx' = 0
    /\ outcomes' = EmptyOutcomes
    /\ aborted' = "none"
    /\ report' = EmptyReport
    /\ vidx' = 0
    /\ stats' = NoStats
    /\ UNCHANGED <<store, archive, store0>>
    /\ UNCHANGED lblVars

Next ==
    \/ StartRun
    \/ check_aws_connection_true
    \/ check_aws_connection_false
    \/ unzip_open
    \/ unzip_entry
    \/ unzip_put_raises
    \/ unzip_done
    \/ verify_dir
    \/ list_dataset_stats
    \/ NextRun

Spec == Init /\ [][Next]_vars

----------------------------------------------------------------------------
(* The label check of unzip_s3_dataset() on its own, one step per line *)

LinePool ==
    { GoodLine,
      NegativeLine,
      <<>>,
      <<" ">>,
      <<"0", " ", "0.5", " ", "0.5", " ", "0.2">>,
      <<"0", " ", "0.5", " ", "0.5", " ", "0.2", " ", "0.2", " ", "1">>,
      <<"-1", " ", "0.5", " ", "0.5", " ", "0.2", " ", "0.2">>,
      <<"car", " ", "0.5", " ", "0.5", " ", "0.2", " ", "0.2">>,
      <<"0", " ", "0.5", " ", "x", " ", "0.2", " ", "0.2">>,
      <<"0", " ", "0.5", " ", "0.5", " ", "nan", " ", "0.2">>,
      <<"\t", "1", " ", " ", "0.3", "\t", "0.4", " ", "1.5", " ", "0", " ">> }

RECURSIVE JoinLines(_)
JoinLines(ls) ==
    IF ls = <<>> THEN <<>>
    ELSE IF Len(ls) = 1 THEN ls[1]
    ELSE ls[1] \o <<"\n">> \o JoinLines(Tail(ls))

\* label payloads: up to MaxLabelLines lines of the pool, with or without a
\* final line break, and one payload that is no UTF-8
LabelBodies ==
    {JoinLines(ls) \o tl :
        ls \in UNION {[1..n -> LinePool] : n \in 0..MaxLabelLines},
        tl \in {<<>>, <<"\n">>}}
    \cup {GoodLine \o <<"\n", "\\xff">>}

InitLabel ==
    /\ lblBody \in LabelBodies
    /\ lblPc = "decode"
    /\ lblLines = <<>>
    /\ lblPos = 0
    /\ lblResult = "none"
    /\ store = BucketOf({})
    /\ archive = <<>>
    /\ stage = "Off"
    /\ run = 1
    /\ idx = 0
    /\ outcomes = EmptyOutcomes
    /\ aborted = "none"
    /\ report = EmptyReport
    /\ vidx = 0
    /\ stats = NoStats
    /\ store0 = store
    /\ storeAfter1 = store
    /\ complete1 = FALSE

\* label_content = file_content.decode('utf-8').strip().splitlines();
\* a decode error is caught and logged as a label problem
label_decode ==
    /\ lblPc = "decode"
    /\ IF DecodeFails(lblBody)
       THEN /\ lblResult' = "problem"
            /\ lblPc' = "done"
            /\ UNCHANGED <<lblLines, lblPos>>
       ELSE /\ lblLines' = label_content(lblBody)
            /\ lblPos' = 1
            /\ lblPc' = "loop"
            /\ UNCHANGED lblResult
    /\ UNCHANGED lblBody
    /\ UNCHANGED mainVars

\* one iteration of "for line in label_content": the first line that
\* raises ends the check with a label problem
label_line ==
    /\ lblPc = "loop"
    /\ lblPos <= Len(lblLines)
    /\ IF LineRaises(split(lblLines[lblPos]))
       THEN /\ lblResult' = "problem"
            /\ lblPc' = "done"
            /\ UNCHANGED lblPos
       ELSE /\ lblPos' = lblPos + 1
            /\ UNCHANGED <<lblResult, lblPc>>
    /\ UNCHANGED <<lblBody, lblLines>>
    /\ UNCHANGED mainVars

\* the loop ends without an exception: "Label looks good"
label_good ==
    /\ lblPc = "loop"
    /\ lblPos > Len(lblLines)
    /\ lblResult' = "good"
    /\ lblPc' = "done"
    /\ UNCHANGED <<lblBody, lblLines, lblPos>>
    /\ UNCHANGED mainVars

NextLabel ==
    \/ label_decode
    \/ label_line
    \/ label_good

SpecLabel == InitLabel /\ [][NextLabel]_vars

----------------------------------------------------------------------------
(* Properties *)

PostProcessing == {"Verifying", "Reporting", "Done"}

\* the bucket as the current run found it
StoreAtRunStart == IF run = 1 THEN store0 ELSE storeAfter1

\* C1: if the archive object is missing from the bucket or is no valid zip
\* container, the run ends in Failed: no entry is processed, no key is
\* written, and neither structure verification nor stats is executed.
C1_UnusableArchiveAborts ==
    (stage \notin {"Off", "Idle", "Preflighting", "Opening"} /\ OpenRaises)
        => /\ stage = "Failed"
           /\ outcomes = EmptyOutcomes
           /\ store = StoreAtRunStart
           /\ report = EmptyReport
           /\ ~stats.ran

\* C2: every entry the loop has put is in the bucket under its target key
\* with the bytes of the archive, whatever its checks logged; an entry
\* whose image or label check failed is therefore still republished.
C2_InvalidStillPublished ==
    /\ stage = "Processing" => Len(outcomes) = idx - 1
    /\ \A i \in 1..Len(outcomes) :
          /\ i <= Len(archive)
          /\ outcomes[i].name = archive[i].name
          /\ (prefix \o Slash \o archive[i].name) \in DOMAIN store
          /\ store[prefix \o Slash \o archive[i].name] = archive[i].body

C2_Witness ==
    /\ stage = "Done"
    /\ \E i \in 1..Len(outcomes) :
          /\ outcomes[i].image = "broken"
          /\ store[prefix \o Slash \o outcomes[i].name] = TruncatedPng
    /\ \E i \in 1..Len(outcomes) :
          /\ outcomes[i].label = "problem"
          /\ store[prefix \o Slash \o outcomes[i].name] = NegativeLine

\* C3: when the put of one entry fails, the batch is not aborted: every
\* later entry of the archive is still read, put and validated.
C3_BatchContinuesAfterWriteError ==
    (stage \in PostProcessing /\ aborted = "put")
        => \A j \in (idx + 1)..Len(archive) :
              /\ (prefix \o Slash \o archive[j].name) \in DOMAIN store
              /\ \E i \in 1..Len(outcomes) :
                    outcomes[i].name = archive[j].name

\* the raw lines of a payload: maximal stretches without a line break
RawLines(b) ==
    LET Breaks == {i \in 1..Len(b) : b[i] = "\n"}
    IN {l \in ({1} \cup {i + 1 : i \in Breaks})
                \X ({Len(b)} \cup {i - 1 : i \in Breaks}) :
           /\ l[1] <= l[2] + 1
           /\ \A i \in l[1]..l[2] : i \notin Breaks}

Fields(b, l) == SelectSeq(SubSeq(b, l[1], l[2]), IsWord)

\* the numerals of the payloads that denote a number >= 0
NonNegativeNumerals == {"0", "1", "0.5", "0.2", "0.3", "0.4", "1.5"}

WellFormed(f) ==
    /\ Len(f) = 5
    /\ \A i \in 2..5 : f[i] \in NonNegativeNumerals

\* every non-blank line is well-formed
NonBlankLinesWellFormed(b) ==
    \A l \in RawLines(b) : Fields(b, l) # <<>> => WellFormed(Fields(b, l))

\* a blank line with a record before it and a record after it
BlankLineBetweenRecords(b) ==
    \E l \in RawLines(b) :
        /\ Fields(b, l) = <<>>
        /\ \E p, q \in 1..Len(b) :
              /\ IsWord(b[p]) /\ p < l[1]
              /\ IsWord(b[q]) /\ q > l[2]

\* C4 as stated: a UTF-8 label payload is good iff every non-blank line
\* has exactly 5 fields with fields 2 to 5 non-negative numbers; blank
\* lines, also between records, are skipped.
C4_BlankLinesSkipped ==
    (lblPc = "done" /\ ~DecodeFails(lblBody))
        => (lblResult = "good" <=> NonBlankLinesWellFormed(lblBody))

\* C4 amended: a UTF-8 label payload is good iff every non-blank line has
\* exactly 5 fields with fields 2 to 5 non-negative numbers and no blank
\* line stands between two records; only leading and trailing blank lines
\* are skipped, field 1 is not checked, and a payload that is no UTF-8 is a
\* label problem.
C4_BlankLineBetweenRecordsInvalid ==
    /\ lblPc = "done"
          => (lblResult = "good" <=>
                 /\ ~DecodeFails(lblBody)
                 /\ NonBlankLinesWellFormed(lblBody)
                 /\ ~BlankLineBetweenRecords(lblBody))
    /\ lblPc = "done" => (lblResult = "good" <=> LabelGood(lblBody))

C4_Witness ==
    /\ lblPc = "done"
    /\ lblResult = "problem"
    /\ ~DecodeFails(lblBody)
    /\ NonBlankLinesWellFormed(lblBody)
    /\ BlankLineBetweenRecords(lblBody)

\* C5: every key a run adds is <prefix>/<entry name> and holds the bytes of
\* that entry; a second run changes no key the first run left in the
\* bucket, and after a first run that put every entry the second run
\* leaves the bucket exactly as the first run left it.
C5_RepublishIdempotent ==
    /\ \A k \in (DOMAIN store) \ (DOMAIN store0) :
          \E i \in 1..Len(archive) :
              /\ startswith(k, prefix \o Slash)
              /\ SubSeq(k, Len(prefix) + 2, Len(k)) = archive[i].name
              /\ store[k] = archive[i].body
    /\ run = 2 =>
          /\ \A k \in DOMAIN storeAfter1 :
                k \in DOMAIN store /\ store[k] = storeAfter1[k]
          /\ complete1 => store = storeAfter1

C5_Witness ==
    /\ run = 2
    /\ complete1
    /\ stage = "Done"
    /\ aborted = "none"
    /\ Len(archive) >= 2
    /\ store = storeAfter1
    /\ store # store0

\* C6: after a run that put all N >= 1 entries of the archive into a bucket
\* that held only the archive object, the stats report N objects: the
\* archive object itself is not counted.
C6_StatsCountOnlyRepublished ==
    (/\ run = 1
     /\ stage = "Done"
     /\ aborted = "none"
     /\ Len(archive) >= 1
     /\ DOMAIN store0 = {zip_key})
        => stats.total_files = Len(archive)

\* C7: the stats count as image every listed key the entry check treats as
\* an image (.jpg/.jpeg/.png in any letter case) and as label every listed
\* key it treats as a label (.txt in any letter case), and no other key.
C7_StatsClassifyAsValidator ==
    (stage = "Done" /\ stats.found)
        => LET contents == list_objects_v2(store, prefix, S3PageSize)
           IN /\ stats.image_count =
                    Cardinality({i \in 1..Len(contents) :
                                    IsImageName(contents[i])})
              /\ stats.label_count =
                    Cardinality({i \in 1..Len(contents) :
                                    IsLabelName(contents[i])})

\* C8: structure verification reports exactly the six expected dirs, each
\* present iff some object lies under <prefix>/<dir>/, whatever other keys
\* the bucket holds; a missing dir never ends the run: a finished run has
\* the full report and its stats, and a failed run never reached the
\* verification.
C8_StructureReport ==
    /\ DOMAIN report \subseteq ExpectedDirSet
    /\ stage = "Verifying"
          => DOMAIN report = {expected_dirs[i] : i \in 1..(vidx - 1)}
    /\ stage \in {"Reporting", "Done"} => DOMAIN report = ExpectedDirSet
    /\ \A d \in DOMAIN report :
          /\ report[d] \in {"present", "missing"}
          /\ report[d] = "present" <=>
                \E k \in DOMAIN store :
                    startswith(k, prefix \o Slash \o d \o Slash)
    /\ stage = "Done" => stats.ran
    /\ stage = "Failed" => report = EmptyReport /\ vidx = 0

C8_Witness ==
    /\ stage = "Done"
    /\ stats.ran
    /\ \E d \in ExpectedDirSet : report[d] = "missing"
    /\ \E d \in ExpectedDirSet : report[d] = "present"
    /\ \E k \in DOMAIN store :
          /\ startswith(k, prefix \o Slash)
          /\ \A d \in ExpectedDirSet :
                ~startswith(k, prefix \o Slash \o d \o Slash)

RECURSIVE SumOfSizes(_, _)
SumOfSizes(st, S) ==
    IF S = {} THEN 0
    ELSE LET k == CHOOSE x \in S : TRUE
         IN Len(st[k]) + SumOfSizes(st, S \ {k})

\* C9: the stats enumerate every key under the prefix even when one
\* listing response is page-limited: total_files is the number of objects
\* under the prefix, total_size the sum of their sizes, and
\* image_count + label_count <= total_files.
C9_StatsEnumerateAllKeys ==
    stage = "Done"
        => /\ stats.total_files = Cardinality(Matching(store, prefix))
           /\ stats.total_size = SumOfSizes(store, Matching(store, prefix))
           /\ stats.image_count + stats.label_count <= stats.total_files

\* C10: when preflight succeeds and the archive opens, the run passes
\* Processing, Verifying, Reporting and Done in that order without going
\* back, Failed is entered only from Preflighting, and every entry of the
\* archive has been processed, in archive order, when verification starts.
C10_AllEntriesBeforeVerification ==
    /\ stage = "Failed"
          => idx = 0 /\ vidx = 0 /\ outcomes = EmptyOutcomes /\ ~stats.ran
    /\ stage = "Processing"
          => vidx = 0 /\ report = EmptyReport /\ ~stats.ran
    /\ stage = "Verifying" => ~stats.ran
    /\ stage = "Reporting"
          => DOMAIN report = ExpectedDirSet /\ ~stats.ran
    /\ stage = "Done" => DOMAIN report = ExpectedDirSet /\ stats.ran
    /\ (stage \in PostProcessing /\ ~OpenRaises)
          => /\ Len(outcomes) = Len(archive)
             /\ \A i \in 1..Len(archive) :
                   outcomes[i].name = archive[i].name

====
